---- MODULE Spec2Model ----
(***************************************************************************)
(* Message handling core of the data clock consensus engine:               *)
(*   node/consensus/data/message_handler.go                                *)
(*   node/consensus/data/broadcast_messaging.go                            *)
(* The frame admission pipeline, the peer announcement handler, the token  *)
(* request staging and publishProof are modelled as goroutines that        *)
(* advance one shared-state access at a time.                              *)
(***************************************************************************)
EXTENDS Integers, Sequences, FiniteSets, TLC

\* ------------------------------------------------------------------ bounds

NumFrameMsgs == 2
MaxFrameNumber == 2
NumInfoMsgs == 2
MaxPeerList == 1
MaxTimestamp == 2
MaxClock == 1
MaxAnnouncedFrame == 2
NumTxMsgs == 2
MaxAppMessages == 1
NumProofs == 2

\* ------------------------------------------------------------ identities

SelfPeerID == "self"
Peers == {"self", "p1", "p2"}
Nil == "nil"

ProverKeys == {"kA", "kB"}

\* poseidon.HashBytes: a hash, kept distinct from the bytes it is taken over
Poseidon(keyValue) == <<"poseidon", keyValue>>

FrameMsgIds == 1..NumFrameMsgs

\* ---------------------------------------------------------------- state

VARIABLES
    panicked,            \* the process died in a panic
    frameProverTries,    \* addresses held by e.GetFrameProverTries()[0]
    timeReelHead,        \* frame number of e.dataTimeReel.Head()
    timeReelInserts,     \* calls e.dataTimeReel.Insert received, in order
    frameMsg,            \* transport envelope of each frame message
    framePc,             \* where each frame message is in the pipeline
    frameHead,           \* head.FrameNumber as read by each handler
    frameCalls,          \* collaborator calls each handler made, in order
    frameResult,         \* what handleClockFrameData returned
    frameDequeued        \* order in which the worker received the messages

frameState == <<frameProverTries, timeReelHead, timeReelInserts, frameMsg,
                framePc, frameHead, frameCalls, frameResult, frameDequeued>>

VARIABLES
    now,                    \* the last value time.Now() returned
    peerMap,                \* e.peerMap
    peerMapMx,              \* e.peerMapMx: the writer and the readers holding it
    uncooperativePeersMap,  \* e.uncooperativePeersMap
    peerScore,              \* the score pubSub holds for each peer
    infoMsg,                \* transport envelope of each info message
    infoPc,                 \* where each info message is in the pipeline
    infoIdx,                \* records of announce.PeerList already taken
    infoRec,                \* p, the record of the current iteration
    infoExisting,           \* existing, ok as read at the lookup
    infoCalls,              \* calls made for the current record, in order
    infoResult,             \* what handleDataPeerListAnnounce returned
    infoDequeued,           \* order in which the worker received the messages
    validatedMax            \* history: greatest validated timestamp per peer

infoState == <<now, peerMap, peerMapMx, uncooperativePeersMap, peerScore,
               infoMsg, infoPc, infoIdx, infoRec, infoExisting, infoCalls,
               infoResult, infoDequeued, validatedMax>>

VARIABLES
    syncingStatus,          \* e.syncingStatus
    stagedTransactions,     \* e.stagedTransactions: nil until first allocated
    stagedTransactionsMx,   \* e.stagedTransactionsMx: the handler holding it
    txMsg,                  \* transport envelope of each tx message
    txPc,                   \* where each tx message is in the pipeline
    txIdx,                  \* app messages of the engine's answer already taken
    txReq,                  \* transition, the request of the current call
    txGate,                 \* what the prover gate of the current call found
    txFound,                \* found, as the scan of the current call left it
    txResult,               \* what the current handleTokenRequest returned
    txDequeued              \* order in which the worker received the messages

txState == <<syncingStatus, stagedTransactions, stagedTransactionsMx, txMsg,
             txPc, txIdx, txReq, txGate, txFound, txResult, txDequeued>>

VARIABLES
    pubPc,                  \* where each publishProof call is
    pubFrame,               \* frame.FrameNumber of each call
    pubTimestamp,           \* timestamp, as each call read the clock
    pubCalls,               \* collaborator calls each call made, in order
    pubResult,              \* what each publishProof call returned
    published               \* what pubSub.PublishToBitmask accepted, in order

pubState == <<pubPc, pubFrame, pubTimestamp, pubCalls, pubResult, published>>

vars == <<panicked, frameState, infoState, txState, pubState>>

\* ------------------------------------------------------- frame messages

NoFrame == [decodes |-> FALSE, frameNumber |-> 0, signer |-> Nil, valid |-> FALSE]

ClockFrames ==
    [decodes : {TRUE}, frameNumber : 0..MaxFrameNumber,
     signer : ProverKeys \cup {Nil}, valid : BOOLEAN]

WellFormedFrameMessages ==
    [from : {SelfPeerID, "p1"}, wire : {"ok"}, typeUrl : {"ClockFrame"},
     frame : ClockFrames \cup {NoFrame}]

MalformedFrameMessages ==
    [from : {"p1"}, wire : {"badmsg", "badany"}, typeUrl : {"ClockFrame"},
     frame : {NoFrame}]
    \cup
    [from : {"p1"}, wire : {"ok"}, typeUrl : {"Other"}, frame : {NoFrame}]

FrameMessages == WellFormedFrameMessages \cup MalformedFrameMessages

NoMessage == [from |-> Nil, wire |-> Nil, typeUrl |-> Nil, frame |-> NoFrame]

Call(op, arg) == [op |-> op, arg |-> arg]

CountCalls(calls, op) == Cardinality({k \in DOMAIN calls : calls[k].op = op})

\* --------------------------------------------------------- frame pipeline

InlineHandlersAll(pcs) ==
    {j \in DOMAIN pcs : pcs[j] \notin {"none", "send", "dropped", "done"}}

\* go func() { ... }(): the handlers the worker's loop runs itself and has to
\* see return before it receives again; each one gets its own goroutine
InlineHandlers(pcs) == {}

\* handleFrameMessage: the transport callback spawns a goroutine that sends
\* the envelope on frameMessageProcessorCh and returns at once.
handleFrameMessage(i, m) ==
    /\ ~panicked
    /\ framePc[i] = "none"
    /\ \A j \in FrameMsgIds : j < i => framePc[j] # "none"
    /\ frameMsg' = [frameMsg EXCEPT ![i] = m]
    /\ framePc' = [framePc EXCEPT ![i] = "send"]
    /\ UNCHANGED <<panicked, frameProverTries, timeReelHead, timeReelInserts,
                   frameHead, frameCalls, frameResult, frameDequeued>>
    /\ UNCHANGED <<infoState, txState, pubState>>

\* runFrameMessageHandler: the worker receives one envelope from a sending
\* goroutine, unwraps it and starts the handler goroutine.
runFrameMessageHandler(i) ==
    /\ ~panicked
    /\ framePc[i] = "send"
    /\ InlineHandlers(framePc) = {}
    /\ frameDequeued' = Append(frameDequeued, i)
    /\ framePc' = [framePc EXCEPT ![i] =
           IF frameMsg[i].wire # "ok" THEN "dropped"
           ELSE IF frameMsg[i].typeUrl # "ClockFrame" THEN "done"
           ELSE "data"]
    /\ UNCHANGED <<panicked, frameProverTries, timeReelHead, timeReelInserts,
                   frameMsg, frameHead, frameCalls, frameResult>>
    /\ UNCHANGED <<infoState, txState, pubState>>

IsSelfNever(peerID) == FALSE

\* bytes.Equal(peerID, e.pubSub.GetPeerID())
IsSelf(peerID) == peerID = SelfPeerID

\* handleClockFrameData
handleClockFrameData(i) ==
    /\ ~panicked
    /\ framePc[i] = "data"
    /\ frameCalls' = [frameCalls EXCEPT ![i] = Append(@, Call("GetPeerID", Nil))]
    /\ IF IsSelf(frameMsg[i].from)
       THEN /\ framePc' = [framePc EXCEPT ![i] = "done"]
            /\ frameResult' = [frameResult EXCEPT ![i] = "ok"]
       ELSE IF ~frameMsg[i].frame.decodes
       THEN /\ framePc' = [framePc EXCEPT ![i] = "done"]
            /\ frameResult' = [frameResult EXCEPT ![i] = "error"]
       ELSE /\ framePc' = [framePc EXCEPT ![i] = "frame"]
            /\ UNCHANGED frameResult
    /\ UNCHANGED <<panicked, frameProverTries, timeReelHead, timeReelInserts,
                   frameMsg, frameHead, frameDequeued>>
    /\ UNCHANGED <<infoState, txState, pubState>>

ProverInTrieAlways(frame) == TRUE

\* trie.Contains(poseidon.HashBytes(signer public key))
ProverInTrie(frame) == Poseidon(frame.signer) \in frameProverTries

\* handleClockFrame up to the trie gate; a frame without a signature makes
\* frame.GetPublicKeySignatureEd448().PublicKey dereference nil.
handleClockFrame(i) ==
    /\ ~panicked
    /\ framePc[i] = "frame"
    /\ IF frameMsg[i].frame.signer = Nil
       THEN /\ panicked' = TRUE
            /\ framePc' = [framePc EXCEPT ![i] = "panic"]
            /\ UNCHANGED <<frameCalls, frameResult>>
       ELSE /\ UNCHANGED panicked
            /\ frameCalls' = [frameCalls EXCEPT ![i] =
                   Append(@, Call("Contains", ProverInTrie(frameMsg[i].frame)))]
            /\ IF ProverInTrie(frameMsg[i].frame)
               THEN /\ framePc' = [framePc EXCEPT ![i] = "verify"]
                    /\ UNCHANGED frameResult
               ELSE /\ framePc' = [framePc EXCEPT ![i] = "done"]
                    /\ frameResult' = [frameResult EXCEPT ![i] = "ok"]
    /\ UNCHANGED <<frameProverTries, timeReelHead, timeReelInserts,
                   frameMsg, frameHead, frameDequeued>>
    /\ UNCHANGED <<infoState, txState, pubState>>

VerifyIgnored(frame) == TRUE

\* e.frameProver.VerifyDataClockFrame(frame) returned no error
VerifyPasses(frame) == frame.valid

VerifyDataClockFrame(i) ==
    /\ ~panicked
    /\ framePc[i] = "verify"
    /\ frameCalls' = [frameCalls EXCEPT ![i] =
           Append(@, Call("Verify", frameMsg[i].frame.valid))]
    /\ IF VerifyPasses(frameMsg[i].frame)
       THEN /\ framePc' = [framePc EXCEPT ![i] = "head"]
            /\ UNCHANGED frameResult
       ELSE /\ framePc' = [framePc EXCEPT ![i] = "done"]
            /\ frameResult' = [frameResult EXCEPT ![i] = "error"]
    /\ UNCHANGED <<panicked, frameProverTries, timeReelHead, timeReelInserts,
                   frameMsg, frameHead, frameDequeued>>
    /\ UNCHANGED <<infoState, txState, pubState>>

\* e.dataTimeReel.Head(): an error panics
TimeReelHead(i) ==
    /\ ~panicked
    /\ framePc[i] = "head"
    /\ \E ok \in BOOLEAN :
         /\ frameCalls' = [frameCalls EXCEPT ![i] = Append(@, Call("Head", ok))]
         /\ IF ok
            THEN /\ frameHead' = [frameHead EXCEPT ![i] = timeReelHead]
                 /\ framePc' = [framePc EXCEPT ![i] = "insert"]
                 /\ UNCHANGED panicked
            ELSE /\ panicked' = TRUE
                 /\ framePc' = [framePc EXCEPT ![i] = "panic"]
                 /\ UNCHANGED frameHead
    /\ UNCHANGED <<frameProverTries, timeReelHead, timeReelInserts,
                   frameMsg, frameResult, frameDequeued>>
    /\ UNCHANGED <<infoState, txState, pubState>>

FrameAdvancesOrTies(frameNumber, headNumber) == frameNumber >= headNumber

\* frame.FrameNumber > head.FrameNumber
FrameAdvances(frameNumber, headNumber) == frameNumber > headNumber

\* e.dataTimeReel.Insert(frame, false) when the frame is ahead of the head
\* that was read; whether the reel moves its head is the reel's choice.
TimeReelInsert(i) ==
    /\ ~panicked
    /\ framePc[i] = "insert"
    /\ IF FrameAdvances(frameMsg[i].frame.frameNumber, frameHead[i])
       THEN /\ frameCalls' = [frameCalls EXCEPT ![i] =
                   Append(@, Call("Insert", FALSE))]
            /\ timeReelInserts' = Append(timeReelInserts,
                   [task |-> i, frame |-> frameMsg[i].frame, isSync |-> FALSE])
            /\ \E moves \in BOOLEAN :
                 timeReelHead' =
                   IF moves /\ frameMsg[i].frame.frameNumber > timeReelHead
                   THEN frameMsg[i].frame.frameNumber
                   ELSE timeReelHead
       ELSE UNCHANGED <<frameCalls, timeReelInserts, timeReelHead>>
    /\ framePc' = [framePc EXCEPT ![i] = "done"]
    /\ frameResult' = [frameResult EXCEPT ![i] = "ok"]
    /\ UNCHANGED <<panicked, frameProverTries, frameMsg, frameHead,
                   frameDequeued>>
    /\ UNCHANGED <<infoState, txState, pubState>>

InitFrame ==
    /\ panicked = FALSE
    /\ frameProverTries = {Poseidon("kA")}
    /\ timeReelHead = 1
    /\ timeReelInserts = <<>>
    /\ frameMsg = [i \in FrameMsgIds |-> NoMessage]
    /\ framePc = [i \in FrameMsgIds |-> "none"]
    /\ frameHead = [i \in FrameMsgIds |-> 0]
    /\ frameCalls = [i \in FrameMsgIds |-> <<>>]
    /\ frameResult = [i \in FrameMsgIds |-> "none"]
    /\ frameDequeued = <<>>

NextFrame ==
    \/ \E i \in FrameMsgIds : \E m \in FrameMessages : handleFrameMessage(i, m)
    \/ \E i \in FrameMsgIds : runFrameMessageHandler(i)
    \/ \E i \in FrameMsgIds : handleClockFrameData(i)
    \/ \E i \in FrameMsgIds : handleClockFrame(i)
    \/ \E i \in FrameMsgIds : VerifyDataClockFrame(i)
    \/ \E i \in FrameMsgIds : TimeReelHead(i)
    \/ \E i \in FrameMsgIds : TimeReelInsert(i)

\* ------------------------------------------------------ peer announcements

InfoMsgIds == 1..NumInfoMsgs

PublicKeys == {"kSelf", "k1", "k2"}

\* peer.ID derived from an Ed448 public key
PeerIDOfKey(key) ==
    CASE key = "kSelf" -> "self"
      [] key = "k1" -> "p1"
      [] key = "k2" -> "p2"
      [] OTHER -> Nil

KeyOfPeer(peerId) ==
    CASE peerId = "self" -> "kSelf"
      [] peerId = "p1" -> "k1"
      [] peerId = "p2" -> "k2"

OtherPeer(peerId) == IF peerId = "p1" THEN "p2" ELSE "p1"

\* binary.BigEndian.AppendUint64([]byte{}, n); the values of the model stay
\* below 2^32, so the four high bytes are zero
BigEndianUint64(n) ==
    [k \in 1..8 |-> IF k <= 4 THEN 0 ELSE (n \div (256 ^ (8 - k))) % 256]

\* bytes.Compare
RECURSIVE BytesCompare(_, _)
BytesCompare(a, b) ==
    IF a = <<>> /\ b = <<>> THEN 0
    ELSE IF a = <<>> THEN -1
    ELSE IF b = <<>> THEN 1
    ELSE IF a[1] < b[1] THEN -1
    ELSE IF a[1] > b[1] THEN 1
    ELSE BytesCompare(Tail(a), Tail(b))

\* config.GetMinimumVersion(), config.GetMinimumVersionCutoff().UnixMilli()
MinimumVersion == <<2, 0>>
MinimumVersionCutoff == 1

OldVersion == <<1, 9>>
Versions == {OldVersion, MinimumVersion}

OutdatedPenalty == -1000000
AnnounceScore == 10

\* an Ed448 signature: verifies under the key that made it, over the bytes
\* it was made over
NilSig == [signer |-> Nil, msg |-> <<>>]
Sign(key, msg) == [signer |-> key, msg |-> msg]
KeyVerify(key, msg, sig) == sig.signer = key /\ sig.msg = msg

SigningMessageTimestampFirst(p) ==
    BigEndianUint64(p.timestamp) \o p.version \o BigEndianUint64(p.maxFrame)

\* msg of handleDataPeerListAnnounce: max frame, version, timestamp
SigningMessage(p) ==
    BigEndianUint64(p.maxFrame) \o p.version \o BigEndianUint64(p.timestamp)

\* -------------------------------------------------- announcement records

Unsigned(peerId, key, version, timestamp, maxFrame) ==
    [peerId |-> peerId, publicKey |-> key, signature |-> NilSig,
     version |-> version, maxFrame |-> maxFrame, timestamp |-> timestamp,
     totalDistance |-> maxFrame]

\* the record a peer makes about itself
Announced(peerId, version, timestamp, maxFrame) ==
    LET p == Unsigned(peerId, KeyOfPeer(peerId), version, timestamp, maxFrame)
    IN  [p EXCEPT !.signature = Sign(p.publicKey, SigningMessage(p))]

\* what p1 may have announced at any time, and the latest of the others
GenuineRecords ==
    {Announced("p1", v, ts, mf) :
        v \in Versions, ts \in 1..MaxTimestamp, mf \in 1..MaxAnnouncedFrame}
    \cup
    {Announced(peerId, v, MaxTimestamp, 1) :
        peerId \in {SelfPeerID, "p2"}, v \in Versions}

\* records that are not what their peer signed
DefectiveRecords ==
    UNION {
      LET g == Announced(peerId, MinimumVersion, MaxTimestamp, 1)
          other == KeyOfPeer(OtherPeer(peerId))
      IN  { [g EXCEPT !.publicKey = Nil],
            [g EXCEPT !.signature = NilSig],
            [g EXCEPT !.version = <<>>],
            [g EXCEPT !.publicKey = "garbage"],
            [g EXCEPT !.publicKey = other,
                      !.signature = Sign(other, SigningMessage(g))],
            [g EXCEPT !.signature = Sign(other, SigningMessage(g))],
            [g EXCEPT !.maxFrame = MaxAnnouncedFrame],
            [g EXCEPT !.timestamp = MaxTimestamp - 1],
            [g EXCEPT !.version = OldVersion],
            [g EXCEPT !.signature = Sign(g.publicKey,
                 BigEndianUint64(g.timestamp) \o g.version
                     \o BigEndianUint64(g.maxFrame))] }
      : peerId \in {"p1"} }

AnnounceRecords == GenuineRecords \cup DefectiveRecords

NoRecord == Unsigned(Nil, Nil, <<>>, 0, 0)

InfoMessages ==
    [from : Peers, wire : {"ok"}, typeUrl : {"DataPeerListAnnounce"},
     decodes : {TRUE}, len : 0..MaxPeerList]
    \cup
    [from : {"p1"}, wire : {"badmsg", "badany"},
     typeUrl : {"DataPeerListAnnounce"}, decodes : {TRUE}, len : {0}]
    \cup
    [from : {"p1"}, wire : {"ok"}, typeUrl : {"Other"},
     decodes : {TRUE}, len : {0}]
    \cup
    [from : {"p1"}, wire : {"ok"}, typeUrl : {"DataPeerListAnnounce"},
     decodes : {FALSE}, len : {0}]

NoInfoMessage ==
    [from |-> Nil, wire |-> Nil, typeUrl |-> Nil, decodes |-> FALSE, len |-> 0]

\* peerInfo
NoPeerInfo ==
    [present |-> FALSE, peerId |-> Nil, multiaddr |-> Nil, maxFrame |-> 0,
     direct |-> FALSE, lastSeen |-> 0, timestamp |-> 0, version |-> <<>>,
     signature |-> NilSig, publicKey |-> Nil, totalDistance |-> 0]

\* e.pubSub.GetMultiaddrOfPeer
GetMultiaddrOfPeer(peerId) == <<"multiaddr", peerId>>

PeerCall(op, peerId, arg) == [op |-> op, peer |-> peerId, arg |-> arg]

\* ------------------------------------------------- announcement handling

\* handleInfoMessage: the transport callback spawns a goroutine that sends
\* the envelope on infoMessageProcessorCh and returns at once.
handleInfoMessage(i, m) ==
    /\ ~panicked
    /\ infoPc[i] = "none"
    /\ \A j \in InfoMsgIds : j < i => infoPc[j] # "none"
    /\ infoMsg' = [infoMsg EXCEPT ![i] = m]
    /\ infoPc' = [infoPc EXCEPT ![i] = "send"]
    /\ UNCHANGED <<panicked, now, peerMap, peerMapMx, uncooperativePeersMap,
                   peerScore, infoIdx, infoRec, infoExisting, infoCalls,
                   infoResult, infoDequeued, validatedMax>>
    /\ UNCHANGED <<frameState, txState, pubState>>

\* runInfoMessageHandler: the worker receives one envelope from a sending
\* goroutine, unwraps it and starts the handler goroutine.
runInfoMessageHandler(i) ==
    /\ ~panicked
    /\ infoPc[i] = "send"
    /\ InlineHandlers(infoPc) = {}
    /\ infoDequeued' = Append(infoDequeued, i)
    /\ infoPc' = [infoPc EXCEPT ![i] =
           IF infoMsg[i].wire # "ok" THEN "dropped"
           ELSE IF infoMsg[i].typeUrl # "DataPeerListAnnounce" THEN "done"
           ELSE "loop"]
    /\ UNCHANGED <<panicked, now, peerMap, peerMapMx, uncooperativePeersMap,
                   peerScore, infoMsg, infoIdx, infoRec, infoExisting,
                   infoCalls, infoResult, validatedMax>>
    /\ UNCHANGED <<frameState, txState, pubState>>

IsAboutAnyone(p, peerID) == TRUE

\* bytes.Equal(p.PeerId, peerID)
IsAboutSender(p, peerID) == p.peerId = peerID

\* p.PublicKey == nil || p.Signature == nil || p.Version == nil
HasNilField(p) ==
    p.publicKey = Nil \/ p.signature = NilSig \/ p.version = <<>>

\* pcrypto.UnmarshalEd448PublicKey(p.PublicKey) returned no error
ParsesEd448(publicKey) == publicKey \in PublicKeys

\* peer.ID(p.PeerId).MatchesPublicKey(key)
MatchesPublicKey(peerId, key) == PeerIDOfKey(key) = peerId

\* key.Verify(msg, p.Signature)
SignatureVerifies(p) == KeyVerify(p.publicKey, SigningMessage(p), p.signature)

OutdatedWhenever(p) == BytesCompare(p.version, MinimumVersion) < 0

\* version below the minimum, announced after the cutoff
Outdated(p) ==
    /\ BytesCompare(p.version, MinimumVersion) < 0
    /\ p.timestamp > MinimumVersionCutoff

\* what the checks at the top of the loop body decide about record p
ValidateRecord(p, peerID) ==
    IF IsSelf(p.peerId) THEN "self"
    ELSE IF ~IsAboutSender(p, peerID) THEN "notsender"
    ELSE IF HasNilField(p) THEN "nil"
    ELSE IF ~ParsesEd448(p.publicKey) THEN "badkey"
    ELSE IF ~MatchesPublicKey(p.peerId, p.publicKey) THEN "mismatch"
    ELSE IF ~SignatureVerifies(p) THEN "badsig"
    ELSE IF Outdated(p) THEN "outdated"
    ELSE "pass"

\* history: record p, received from peerID, is a genuine announcement of
\* its peer that the version gate lets through
Validated(p, peerID) ==
    /\ p.peerId # SelfPeerID
    /\ p.peerId = peerID
    /\ p.publicKey \in PublicKeys
    /\ PeerIDOfKey(p.publicKey) = p.peerId
    /\ p.signature = Sign(p.publicKey,
          BigEndianUint64(p.maxFrame) \o p.version \o BigEndianUint64(p.timestamp))
    /\ ~(BytesCompare(p.version, MinimumVersion) < 0
            /\ p.timestamp > MinimumVersionCutoff)

Max(a, b) == IF a > b THEN a ELSE b

\* handleDataPeerListAnnounce: unmarshal, then for each record the checks
\* up to the version gate
handleDataPeerListAnnounce(i) ==
    /\ ~panicked
    /\ infoPc[i] = "loop"
    /\ IF ~infoMsg[i].decodes
       THEN /\ infoPc' = [infoPc EXCEPT ![i] = "done"]
            /\ infoResult' = [infoResult EXCEPT ![i] = "error"]
            /\ UNCHANGED <<infoIdx, infoRec, infoExisting, infoCalls,
                           peerScore, validatedMax>>
       ELSE IF infoIdx[i] = infoMsg[i].len
       THEN \* the goroutine returns and its locals are gone
            /\ infoPc' = [infoPc EXCEPT ![i] = "done"]
            /\ infoResult' = [infoResult EXCEPT ![i] = "ok"]
            /\ infoRec' = [infoRec EXCEPT ![i] = NoRecord]
            /\ infoExisting' = [infoExisting EXCEPT ![i] = NoPeerInfo]
            /\ infoCalls' = [infoCalls EXCEPT ![i] = <<>>]
            /\ UNCHANGED <<infoIdx, peerScore, validatedMax>>
       ELSE \E p \in AnnounceRecords :
              LET verdict == ValidateRecord(p, infoMsg[i].from) IN
              /\ infoIdx' = [infoIdx EXCEPT ![i] = @ + 1]
              /\ infoRec' = [infoRec EXCEPT ![i] = p]
              /\ infoExisting' = [infoExisting EXCEPT ![i] = NoPeerInfo]
              /\ infoCalls' = [infoCalls EXCEPT ![i] =
                     IF verdict = "outdated"
                     THEN <<PeerCall("SetPeerScore", p.peerId, OutdatedPenalty)>>
                     ELSE <<>>]
              /\ peerScore' =
                     IF verdict = "outdated"
                     THEN [peerScore EXCEPT ![p.peerId] = OutdatedPenalty]
                     ELSE peerScore
              /\ infoPc' = [infoPc EXCEPT ![i] =
                     IF verdict = "pass" THEN "rlock" ELSE "loop"]
              /\ validatedMax' =
                     IF Validated(p, infoMsg[i].from)
                     THEN [validatedMax EXCEPT ![p.peerId] = Max(@, p.timestamp)]
                     ELSE validatedMax
              /\ UNCHANGED infoResult
    /\ UNCHANGED <<panicked, now, peerMap, peerMapMx, uncooperativePeersMap,
                   infoMsg, infoDequeued>>
    /\ UNCHANGED <<frameState, txState, pubState>>

\* e.peerMapMx.RLock()
RLock(i, at, next) ==
    /\ ~panicked
    /\ infoPc[i] = at
    /\ peerMapMx.writer = 0
    /\ peerMapMx' = [peerMapMx EXCEPT !.readers = @ \cup {i}]
    /\ infoPc' = [infoPc EXCEPT ![i] = next]
    /\ UNCHANGED <<panicked, now, peerMap, uncooperativePeersMap, peerScore,
                   infoMsg, infoIdx, infoRec, infoExisting, infoCalls,
                   infoResult, infoDequeued, validatedMax>>
    /\ UNCHANGED <<frameState, txState, pubState>>

RLockUncooperative(i) == RLock(i, "rlock", "uncooperative")

IsUncooperativeNever(peerId) == FALSE

\* _, ok := e.uncooperativePeersMap[string(p.PeerId)]
IsUncooperative(peerId) == peerId \in uncooperativePeersMap

\* the uncooperative peers mask, read under the shared lock
CheckUncooperative(i) ==
    /\ ~panicked
    /\ infoPc[i] = "uncooperative"
    /\ peerMapMx' = [peerMapMx EXCEPT !.readers = @ \ {i}]
    /\ infoPc' = [infoPc EXCEPT ![i] =
           IF IsUncooperative(infoRec[i].peerId)
           THEN "loop" ELSE "transport"]
    /\ UNCHANGED <<panicked, now, peerMap, uncooperativePeersMap, peerScore,
                   infoMsg, infoIdx, infoRec, infoExisting, infoCalls,
                   infoResult, infoDequeued, validatedMax>>
    /\ UNCHANGED <<frameState, txState, pubState>>

\* e.pubSub.GetMultiaddrOfPeer(p.PeerId); e.pubSub.SetPeerScore(p.PeerId, 10)
SetPeerScore(i) ==
    /\ ~panicked
    /\ infoPc[i] = "transport"
    /\ infoCalls' = [infoCalls EXCEPT ![i] =
           @ \o <<PeerCall("GetMultiaddrOfPeer", infoRec[i].peerId, 0),
                  PeerCall("SetPeerScore", infoRec[i].peerId, AnnounceScore)>>]
    /\ peerScore' = [peerScore EXCEPT ![infoRec[i].peerId] = AnnounceScore]
    /\ infoPc' = [infoPc EXCEPT ![i] = "rlock2"]
    /\ UNCHANGED <<panicked, now, peerMap, peerMapMx, uncooperativePeersMap,
                   infoMsg, infoIdx, infoRec, infoExisting, infoResult,
                   infoDequeued, validatedMax>>
    /\ UNCHANGED <<frameState, txState, pubState>>

RLockLookup(i) == RLock(i, "rlock2", "lookup")

KeepsExistingNever(existing, p) == FALSE

KeepsExistingUnlessNewer(existing, p) ==
    existing.present /\ existing.timestamp >= p.timestamp

\* the monotonic replacement rules: the stored record stays
KeepsExisting(existing, p) ==
    /\ existing.present
    /\ \/ existing.signature # NilSig /\ p.signature = NilSig
       \/ existing.publicKey # Nil /\ p.publicKey = Nil
       \/ existing.version # <<>> /\ p.version = <<>>
       \/ existing.timestamp > p.timestamp

\* existing, ok := e.peerMap[p.PeerId] under the shared lock, then the
\* comparison with it
Lookup(i) ==
    /\ ~panicked
    /\ infoPc[i] = "lookup"
    /\ peerMapMx' = [peerMapMx EXCEPT !.readers = @ \ {i}]
    /\ infoExisting' = [infoExisting EXCEPT ![i] = peerMap[infoRec[i].peerId]]
    /\ infoPc' = [infoPc EXCEPT ![i] =
           IF KeepsExisting(peerMap[infoRec[i].peerId], infoRec[i])
           THEN "loop" ELSE "lock"]
    /\ UNCHANGED <<panicked, now, peerMap, uncooperativePeersMap, peerScore,
                   infoMsg, infoIdx, infoRec, infoCalls, infoResult,
                   infoDequeued, validatedMax>>
    /\ UNCHANGED <<frameState, txState, pubState>>

\* e.peerMapMx.Lock()
Lock(i) ==
    /\ ~panicked
    /\ infoPc[i] = "lock"
    /\ peerMapMx.writer = 0
    /\ peerMapMx.readers = {}
    /\ peerMapMx' = [peerMapMx EXCEPT !.writer = i]
    /\ infoPc' = [infoPc EXCEPT ![i] = "store"]
    /\ UNCHANGED <<panicked, now, peerMap, uncooperativePeersMap, peerScore,
                   infoMsg, infoIdx, infoRec, infoExisting, infoCalls,
                   infoResult, infoDequeued, validatedMax>>
    /\ UNCHANGED <<frameState, txState, pubState>>

\* the peerInfo built from record p received from peerID at time t
NewPeerInfo(p, peerID, t) ==
    [present |-> TRUE, peerId |-> p.peerId,
     multiaddr |-> GetMultiaddrOfPeer(p.peerId), maxFrame |-> p.maxFrame,
     direct |-> (p.peerId = peerID), lastSeen |-> t,
     timestamp |-> p.timestamp, version |-> p.version,
     signature |-> p.signature, publicKey |-> p.publicKey,
     totalDistance |-> p.totalDistance]

\* e.peerMap[p.PeerId] = &peerInfo{...}; e.peerMapMx.Unlock()
Store(i) ==
    /\ ~panicked
    /\ infoPc[i] = "store"
    /\ \E t \in now..MaxClock :
         /\ now' = t
         /\ peerMap' = [peerMap EXCEPT ![infoRec[i].peerId] =
                NewPeerInfo(infoRec[i], infoMsg[i].from, t)]
    /\ peerMapMx' = [peerMapMx EXCEPT !.writer = 0]
    /\ infoCalls' = [infoCalls EXCEPT ![i] =
           Append(@, PeerCall("Store", infoRec[i].peerId, infoRec[i].timestamp))]
    /\ infoPc' = [infoPc EXCEPT ![i] = "loop"]
    /\ UNCHANGED <<panicked, uncooperativePeersMap, peerScore, infoMsg,
                   infoIdx, infoRec, infoExisting, infoResult, infoDequeued,
                   validatedMax>>
    /\ UNCHANGED <<frameState, txState, pubState>>

InitInfo ==
    /\ now = 0
    /\ peerMap = [q \in Peers |-> NoPeerInfo]
    /\ peerMapMx = [writer |-> 0, readers |-> {}]
    /\ uncooperativePeersMap = {"p2"}
    /\ peerScore = [q \in Peers |-> 0]
    /\ infoMsg = [i \in InfoMsgIds |-> NoInfoMessage]
    /\ infoPc = [i \in InfoMsgIds |-> "none"]
    /\ infoIdx = [i \in InfoMsgIds |-> 0]
    /\ infoRec = [i \in InfoMsgIds |-> NoRecord]
    /\ infoExisting = [i \in InfoMsgIds |-> NoPeerInfo]
    /\ infoCalls = [i \in InfoMsgIds |-> <<>>]
    /\ infoResult = [i \in InfoMsgIds |-> "none"]
    /\ infoDequeued = <<>>
    /\ validatedMax = [q \in Peers |-> 0]

\* ---------------------------------------------------------- token requests

TxMsgIds == 1..NumTxMsgs

\* e.provingKeyAddress
provingKeyAddress == Poseidon("kProving")

\* a protobufs.TokenRequest: its variant and the byte strings its dedup key
\* is made of (coin addresses, proofs, or signer public keys)
TokenRequest(variant, keys) == [variant |-> variant, keys |-> keys]

TokenRequests ==
    {TokenRequest(v, <<c>>) :
        v \in {"Transfer", "Split"}, c \in {"coinX", "coinY"}}
    \cup
    {TokenRequest("Merge", cs) :
        cs \in {<<"coinA", "coinB">>, <<"coinB", "coinC">>, <<"coinC">>}}
    \cup
    {TokenRequest("Mint", ps) : ps \in {<<"p">>, <<"p", "q">>, <<"q">>}}
    \cup
    {TokenRequest("Announce", ks) :
        ks \in {<<"k1", "k2">>, <<"k2">>, <<"k3">>}}
    \cup
    {TokenRequest("Join", <<k>>) : k \in {"k1", "k2"}}
    \cup
    {TokenRequest(v, <<"k1">>) : v \in {"Leave", "Pause", "Resume"}}

NoRequest == TokenRequest(Nil, <<>>)

\* an app message of the engine's answer that is not a token request
NotATokenRequest == TokenRequest("Other", <<>>)

TxMessages == [wire : {"ok", "badmsg"}]

NoTxMessage == [wire |-> Nil]

\* two byte-string lists have an element in common
SharesKey(a, b) ==
    \E x \in DOMAIN a : \E y \in DOMAIN b : a[x] = b[y]

CollidesMergeHeadOnly(t, r) ==
    /\ t.variant = r.variant
    /\ IF r.variant = "Split" THEN TRUE
       ELSE IF r.variant = "Mint" THEN Len(r.keys) < 2 /\ SharesKey(t.keys, r.keys)
       ELSE t.keys[1] = r.keys[1]

CollidesMintAnySize(t, r) ==
    /\ t.variant = r.variant
    /\ IF r.variant = "Split" THEN TRUE
       ELSE SharesKey(t.keys, r.keys)

\* the body of the scan loop: staged request t sets found for transition r
Collides(t, r) ==
    /\ t.variant = r.variant
    /\ CASE r.variant = "Transfer" -> r.keys[1] = t.keys[1]
         [] r.variant = "Split" -> r.keys[1] = r.keys[1]
         [] r.variant = "Merge" -> SharesKey(t.keys, r.keys)
         [] r.variant = "Mint" ->
              \E x \in DOMAIN t.keys :
                 Len(r.keys) < 2 /\ \E y \in DOMAIN r.keys : t.keys[x] = r.keys[y]
         [] r.variant = "Announce" -> SharesKey(t.keys, r.keys)
         [] r.variant \in {"Join", "Leave", "Pause", "Resume"} ->
              t.keys[1] = r.keys[1]
         [] OTHER -> FALSE

InProverTrieAlways(address) == TRUE

\* e.GetFrameProverTries()[0].Contains(address)
InProverTrie(address) == address \in frameProverTries

StagingFreeAlways(mx) == TRUE

\* nobody holds e.stagedTransactionsMx
StagingFree(mx) == mx = 0

\* handleTxMessage: the transport callback spawns a goroutine that sends
\* the envelope on txMessageProcessorCh and returns at once.
handleTxMessage(i, m) ==
    /\ ~panicked
    /\ txPc[i] = "none"
    /\ \A j \in TxMsgIds : j < i => txPc[j] # "none"
    /\ txMsg' = [txMsg EXCEPT ![i] = m]
    /\ txPc' = [txPc EXCEPT ![i] = "send"]
    /\ UNCHANGED <<panicked, syncingStatus, stagedTransactions,
                   stagedTransactionsMx, txIdx, txReq, txGate, txFound,
                   txResult, txDequeued>>
    /\ UNCHANGED <<frameState, infoState, pubState>>

\* runTxMessageHandler: the worker receives one envelope and, on a prover
\* that is not syncing, starts a goroutine for the execution engine.
runTxMessageHandler(i) ==
    /\ ~panicked
    /\ txPc[i] = "send"
    /\ InlineHandlers(txPc) = {}
    /\ txDequeued' = Append(txDequeued, i)
    /\ txPc' = [txPc EXCEPT ![i] =
           IF txMsg[i].wire # "ok" THEN "dropped"
           ELSE IF InProverTrie(provingKeyAddress)
                   /\ syncingStatus = "NotSyncing" THEN "process"
           ELSE "done"]
    /\ UNCHANGED <<panicked, syncingStatus, stagedTransactions,
                   stagedTransactionsMx, txMsg, txIdx, txReq, txGate, txFound,
                   txResult>>
    /\ UNCHANGED <<frameState, infoState, pubState>>

\* e.executionEngines[name].ProcessMessage: an error ends the goroutine
ProcessMessage(i) ==
    /\ ~panicked
    /\ txPc[i] = "process"
    /\ \E ok \in BOOLEAN :
         txPc' = [txPc EXCEPT ![i] = IF ok THEN "range" ELSE "done"]
    /\ UNCHANGED <<panicked, syncingStatus, stagedTransactions,
                   stagedTransactionsMx, txMsg, txIdx, txReq, txGate, txFound,
                   txResult, txDequeued>>
    /\ UNCHANGED <<frameState, infoState, pubState>>

\* for _, appMessage := range messages: the next app message, if any, is
\* unmarshalled and a token request is handed to handleTokenRequest
RangeMessages(i) ==
    /\ ~panicked
    /\ txPc[i] = "range"
    /\ \/ \* the list is exhausted: the goroutine returns, its locals are gone
          /\ txPc' = [txPc EXCEPT ![i] = "done"]
          /\ txReq' = [txReq EXCEPT ![i] = NoRequest]
          /\ txGate' = [txGate EXCEPT ![i] = "none"]
          /\ txFound' = [txFound EXCEPT ![i] = FALSE]
          /\ txResult' = [txResult EXCEPT ![i] = "none"]
          /\ UNCHANGED txIdx
       \/ /\ txIdx[i] < MaxAppMessages
          /\ \E t \in TokenRequests \cup {NotATokenRequest} :
               /\ txIdx' = [txIdx EXCEPT ![i] = @ + 1]
               /\ txReq' = [txReq EXCEPT ![i] = t]
               /\ txGate' = [txGate EXCEPT ![i] = "none"]
               /\ txFound' = [txFound EXCEPT ![i] = FALSE]
               /\ txResult' = [txResult EXCEPT ![i] = "none"]
               /\ txPc' = [txPc EXCEPT ![i] =
                      IF t = NotATokenRequest THEN "range" ELSE "gate"]
    /\ UNCHANGED <<panicked, syncingStatus, stagedTransactions,
                   stagedTransactionsMx, txMsg, txDequeued>>
    /\ UNCHANGED <<frameState, infoState, pubState>>

\* handleTokenRequest: the prover gate; a node outside the trie returns nil
handleTokenRequest(i) ==
    /\ ~panicked
    /\ txPc[i] = "gate"
    /\ IF InProverTrie(provingKeyAddress)
       THEN /\ txGate' = [txGate EXCEPT ![i] = "in"]
            /\ txPc' = [txPc EXCEPT ![i] = "lock"]
            /\ UNCHANGED txResult
       ELSE /\ txGate' = [txGate EXCEPT ![i] = "out"]
            /\ txPc' = [txPc EXCEPT ![i] = "range"]
            /\ txResult' = [txResult EXCEPT ![i] = "nil"]
    /\ UNCHANGED <<panicked, syncingStatus, stagedTransactions,
                   stagedTransactionsMx, txMsg, txIdx, txReq, txFound,
                   txDequeued>>
    /\ UNCHANGED <<frameState, infoState, pubState>>

\* e.stagedTransactionsMx.Lock()
StagingLock(i) ==
    /\ ~panicked
    /\ txPc[i] = "lock"
    /\ StagingFree(stagedTransactionsMx)
    /\ stagedTransactionsMx' = i
    /\ txPc' = [txPc EXCEPT ![i] = "scan"]
    /\ UNCHANGED <<panicked, syncingStatus, stagedTransactions, txMsg, txIdx,
                   txReq, txGate, txFound, txResult, txDequeued>>
    /\ UNCHANGED <<frameState, infoState, pubState>>

\* the lazy allocation of the list and the scan that computes found
ScanStaged(i) ==
    /\ ~panicked
    /\ txPc[i] = "scan"
    /\ stagedTransactions' = [stagedTransactions EXCEPT !.allocated = TRUE]
    /\ txFound' = [txFound EXCEPT ![i] =
           \E k \in DOMAIN stagedTransactions.Requests :
              Collides(stagedTransactions.Requests[k], txReq[i])]
    /\ txPc' = [txPc EXCEPT ![i] = "append"]
    /\ UNCHANGED <<panicked, syncingStatus, stagedTransactionsMx, txMsg, txIdx,
                   txReq, txGate, txResult, txDequeued>>
    /\ UNCHANGED <<frameState, infoState, pubState>>

\* if !found { append }; e.stagedTransactionsMx.Unlock(); return nil
AppendStaged(i) ==
    /\ ~panicked
    /\ txPc[i] = "append"
    /\ stagedTransactions' =
           IF txFound[i] THEN stagedTransactions
           ELSE [stagedTransactions EXCEPT !.Requests = Append(@, txReq[i])]
    /\ stagedTransactionsMx' = 0
    /\ txResult' = [txResult EXCEPT ![i] = "nil"]
    /\ txPc' = [txPc EXCEPT ![i] = "range"]
    /\ UNCHANGED <<panicked, syncingStatus, txMsg, txIdx, txReq, txGate,
                   txFound, txDequeued>>
    /\ UNCHANGED <<frameState, infoState, pubState>>

\* the local prover enters or leaves the first prover trie
ProverTrieChanges ==
    /\ ~panicked
    /\ frameProverTries' =
           IF provingKeyAddress \in frameProverTries
           THEN frameProverTries \ {provingKeyAddress}
           ELSE frameProverTries \cup {provingKeyAddress}
    /\ UNCHANGED <<panicked, timeReelHead, timeReelInserts, frameMsg, framePc,
                   frameHead, frameCalls, frameResult, frameDequeued>>
    /\ UNCHANGED <<infoState, txState, pubState>>

InitTx ==
    /\ syncingStatus = "NotSyncing"
    /\ stagedTransactions = [allocated |-> FALSE, Requests |-> <<>>]
    /\ stagedTransactionsMx = 0
    /\ txMsg = [i \in TxMsgIds |-> NoTxMessage]
    /\ txPc = [i \in TxMsgIds |-> "none"]
    /\ txIdx = [i \in TxMsgIds |-> 0]
    /\ txReq = [i \in TxMsgIds |-> NoRequest]
    /\ txGate = [i \in TxMsgIds |-> "none"]
    /\ txFound = [i \in TxMsgIds |-> FALSE]
    /\ txResult = [i \in TxMsgIds |-> "none"]
    /\ txDequeued = <<>>

NextTx ==
    \/ \E i \in TxMsgIds : \E m \in TxMessages : handleTxMessage(i, m)
    \/ \E i \in TxMsgIds : runTxMessageHandler(i)
    \/ \E i \in TxMsgIds : ProcessMessage(i)
    \/ \E i \in TxMsgIds : RangeMessages(i)
    \/ \E i \in TxMsgIds : handleTokenRequest(i)
    \/ \E i \in TxMsgIds : StagingLock(i)
    \/ \E i \in TxMsgIds : ScanStaged(i)
    \/ \E i \in TxMsgIds : AppendStaged(i)
    \/ ProverTrieChanges

\* ------------------------------------------------------------- publishing

PubIds == 1..NumProofs

\* the id under which publishProof call k holds e.peerMapMx
PubHolder(k) == NumInfoMsgs + k

\* config.GetVersion()
GetVersion == MinimumVersion

\* e.dataTimeReel.GetTotalDistance(), known only through the reel's head
GetTotalDistance == timeReelHead

\* what publishMessage can return: nil, a wrapped marshal or hash error, or
\* the error of pubSub.PublishToBitmask
PublishErrors == {"nil", "marshal", "publish"}

\* the protobufs.Message publishMessage builds around a payload
Envelope(filter, payload) ==
    [filter |-> filter, hash |-> Poseidon(payload),
     address |-> provingKeyAddress, payload |-> payload]

\* the DataPeerListAnnounce publishProof builds: PeerId is nil
SelfAnnounce(frameNumber, timestamp, distance) ==
    [typeUrl |-> "DataPeerListAnnounce", peerId |-> Nil,
     maxFrame |-> frameNumber, version |-> GetVersion,
     timestamp |-> timestamp, totalDistance |-> distance]

FramePayload(frameNumber) ==
    [typeUrl |-> "ClockFrame", frameNumber |-> frameNumber]

\* the peerInfo publishProof stores for the local peer
SelfPeerInfo(frameNumber, timestamp, distance) ==
    [NoPeerInfo EXCEPT !.present = TRUE, !.peerId = SelfPeerID,
                       !.multiaddr = "", !.maxFrame = frameNumber,
                       !.version = GetVersion, !.timestamp = timestamp,
                       !.totalDistance = distance]

\* publishProof is called with a frame and reads the clock
publishProof(k, f) ==
    /\ ~panicked
    /\ pubPc[k] = "none"
    /\ \A j \in PubIds : j < k => pubPc[j] # "none"
    /\ \E t \in now..MaxClock :
         /\ now' = t
         /\ pubTimestamp' = [pubTimestamp EXCEPT ![k] = t]
    /\ pubFrame' = [pubFrame EXCEPT ![k] = f]
    /\ pubPc' = [pubPc EXCEPT ![k] = "lock"]
    /\ UNCHANGED <<panicked, peerMap, peerMapMx, uncooperativePeersMap,
                   peerScore, infoMsg, infoPc, infoIdx, infoRec, infoExisting,
                   infoCalls, infoResult, infoDequeued, validatedMax>>
    /\ UNCHANGED <<pubCalls, pubResult, published>>
    /\ UNCHANGED <<frameState, txState>>

\* e.peerMapMx.Lock(); the call then enters e.pubSub.GetPeerID()
PublishLock(k) ==
    /\ ~panicked
    /\ pubPc[k] = "lock"
    /\ peerMapMx.writer = 0
    /\ peerMapMx.readers = {}
    /\ peerMapMx' = [peerMapMx EXCEPT !.writer = PubHolder(k)]
    /\ pubPc' = [pubPc EXCEPT ![k] = "GetPeerID"]
    /\ UNCHANGED <<panicked, now, peerMap, uncooperativePeersMap,
                   peerScore, infoMsg, infoPc, infoIdx, infoRec, infoExisting,
                   infoCalls, infoResult, infoDequeued, validatedMax>>
    /\ UNCHANGED <<pubFrame, pubTimestamp, pubCalls, pubResult, published>>
    /\ UNCHANGED <<frameState, txState>>

\* e.pubSub.GetPeerID() returns (map key and peerId field); the call then
\* enters e.dataTimeReel.GetTotalDistance()
GetPeerID(k) ==
    /\ ~panicked
    /\ pubPc[k] = "GetPeerID"
    /\ pubCalls' = [pubCalls EXCEPT ![k] =
           Append(@, Call("GetPeerID", peerMapMx.writer = PubHolder(k)))]
    /\ pubPc' = [pubPc EXCEPT ![k] = "GetTotalDistance"]
    /\ UNCHANGED <<panicked, pubFrame, pubTimestamp, pubResult, published>>
    /\ UNCHANGED <<frameState, infoState, txState>>

\* GetTotalDistance() returns and the local entry is stored; the call then
\* enters GetTotalDistance() a second time, for the announcement
StoreSelf(k) ==
    /\ ~panicked
    /\ pubPc[k] = "GetTotalDistance"
    /\ pubCalls' = [pubCalls EXCEPT ![k] =
           Append(@, Call("GetTotalDistance", peerMapMx.writer = PubHolder(k)))]
    /\ peerMap' = [peerMap EXCEPT ![SelfPeerID] =
           SelfPeerInfo(pubFrame[k], pubTimestamp[k], GetTotalDistance)]
    /\ pubPc' = [pubPc EXCEPT ![k] = "list"]
    /\ UNCHANGED <<panicked, now, peerMapMx, uncooperativePeersMap,
                   peerScore, infoMsg, infoPc, infoIdx, infoRec, infoExisting,
                   infoCalls, infoResult, infoDequeued, validatedMax>>
    /\ UNCHANGED <<pubFrame, pubTimestamp, pubResult, published>>
    /\ UNCHANGED <<frameState, txState>>

\* the second GetTotalDistance() returns, the list is built;
\* e.peerMapMx.Unlock()
PublishUnlock(k) ==
    /\ ~panicked
    /\ pubPc[k] = "list"
    /\ pubCalls' = [pubCalls EXCEPT ![k] =
           Append(@, Call("GetTotalDistance", peerMapMx.writer = PubHolder(k)))]
    /\ peerMapMx' = [peerMapMx EXCEPT !.writer = 0]
    /\ pubPc' = [pubPc EXCEPT ![k] = "info"]
    /\ UNCHANGED <<panicked, now, peerMap, uncooperativePeersMap,
                   peerScore, infoMsg, infoPc, infoIdx, infoRec, infoExisting,
                   infoCalls, infoResult, infoDequeued, validatedMax>>
    /\ UNCHANGED <<pubFrame, pubTimestamp, pubResult, published>>
    /\ UNCHANGED <<frameState, txState>>

\* publishMessage(filter, payload) by call k, returning err: the envelope
\* reaches the transport only when nothing failed
publishMessage(k, op, filter, payload, err) ==
    /\ pubCalls' = [pubCalls EXCEPT ![k] = Append(@, Call(op, err))]
    /\ published' = IF err = "nil"
                    THEN Append(published, Envelope(filter, payload))
                    ELSE published

\* what publishProof returns when the frame publish returned err
PublishProofReturns(err) == "nil"

\* e.publishMessage(e.infoFilter, list); an error is logged
PublishInfo(k) ==
    /\ ~panicked
    /\ pubPc[k] = "info"
    /\ \E err \in PublishErrors :
         publishMessage(k, "publishInfo", "infoFilter",
             SelfAnnounce(pubFrame[k], pubTimestamp[k], GetTotalDistance), err)
    /\ pubPc' = [pubPc EXCEPT ![k] = "frame"]
    /\ UNCHANGED <<panicked, pubFrame, pubTimestamp, pubResult>>
    /\ UNCHANGED <<frameState, infoState, txState>>

\* e.publishMessage(e.frameFilter, frame); return nil
PublishFrame(k) ==
    /\ ~panicked
    /\ pubPc[k] = "frame"
    /\ \E err \in PublishErrors :
         /\ publishMessage(k, "publishFrame", "frameFilter",
                FramePayload(pubFrame[k]), err)
         /\ pubResult' = [pubResult EXCEPT ![k] = PublishProofReturns(err)]
    /\ pubPc' = [pubPc EXCEPT ![k] = "done"]
    /\ UNCHANGED <<panicked, pubFrame, pubTimestamp>>
    /\ UNCHANGED <<frameState, infoState, txState>>

NextPublish ==
    \/ \E k \in PubIds : \E f \in 0..MaxFrameNumber : publishProof(k, f)
    \/ \E k \in PubIds : PublishLock(k)
    \/ \E k \in PubIds : GetPeerID(k)
    \/ \E k \in PubIds : StoreSelf(k)
    \/ \E k \in PubIds : PublishUnlock(k)
    \/ \E k \in PubIds : PublishInfo(k)
    \/ \E k \in PubIds : PublishFrame(k)

InitPub ==
    /\ pubPc = [k \in PubIds |-> "none"]
    /\ pubFrame = [k \in PubIds |-> 0]
    /\ pubTimestamp = [k \in PubIds |-> 0]
    /\ pubCalls = [k \in PubIds |-> <<>>]
    /\ pubResult = [k \in PubIds |-> "none"]
    /\ published = <<>>

Init == InitFrame /\ InitInfo /\ InitTx /\ InitPub

SpecFrame == Init /\ [][NextFrame]_vars

NextInfo ==
    \/ \E i \in InfoMsgIds : \E m \in InfoMessages : handleInfoMessage(i, m)
    \/ \E i \in InfoMsgIds : runInfoMessageHandler(i)
    \/ \E i \in InfoMsgIds : handleDataPeerListAnnounce(i)
    \/ \E i \in InfoMsgIds : RLockUncooperative(i)
    \/ \E i \in InfoMsgIds : CheckUncooperative(i)
    \/ \E i \in InfoMsgIds : SetPeerScore(i)
    \/ \E i \in InfoMsgIds : RLockLookup(i)
    \/ \E i \in InfoMsgIds : Lookup(i)
    \/ \E i \in InfoMsgIds : Lock(i)
    \/ \E i \in InfoMsgIds : Store(i)

SpecInfo == Init /\ [][NextInfo]_vars

\* no announcement handler is running
NoHandlerRunning ==
    \A j \in InfoMsgIds : infoPc[j] \in {"none", "send", "dropped", "done"}

\* the worker starts a handler only once the one before has returned
runInfoMessageHandlerInTurn(i) ==
    /\ NoHandlerRunning
    /\ runInfoMessageHandler(i)

NextInfoInTurn ==
    \/ \E i \in InfoMsgIds : \E m \in InfoMessages : handleInfoMessage(i, m)
    \/ \E i \in InfoMsgIds : runInfoMessageHandlerInTurn(i)
    \/ \E i \in InfoMsgIds : handleDataPeerListAnnounce(i)
    \/ \E i \in InfoMsgIds : RLockUncooperative(i)
    \/ \E i \in InfoMsgIds : CheckUncooperative(i)
    \/ \E i \in InfoMsgIds : SetPeerScore(i)
    \/ \E i \in InfoMsgIds : RLockLookup(i)
    \/ \E i \in InfoMsgIds : Lookup(i)
    \/ \E i \in InfoMsgIds : Lock(i)
    \/ \E i \in InfoMsgIds : Store(i)

SpecInfoInTurn == Init /\ [][NextInfoInTurn]_vars

SpecTx == Init /\ [][NextTx]_vars

SpecPublish == Init /\ [][NextPublish]_vars

\* The frame queue and the info queue share no state: each is followed with
\* the other one idle. The worker loops are always scheduled; a handler
\* goroutine may stay where it is for ever.
NoFrameArrived == \A j \in FrameMsgIds : framePc[j] = "none"

NoInfoArrived == \A j \in InfoMsgIds : infoPc[j] = "none"

NextDemux ==
    \/ NoInfoArrived /\ NextFrame
    \/ NoFrameArrived /\ NextInfo

SpecDemuxFair ==
    /\ Init
    /\ [][NextDemux]_vars
    /\ WF_vars(\E i \in FrameMsgIds : runFrameMessageHandler(i))
    /\ WF_vars(\E i \in InfoMsgIds : runInfoMessageHandler(i))

Next == NextFrame \/ NextInfo

Spec == Init /\ [][Next]_vars

\* ------------------------------------------------- frame pipeline: claims

HasCall(calls, op) == \E k \in DOMAIN calls : calls[k].op = op

ReelInsertsOf(i) ==
    {k \in DOMAIN timeReelInserts : timeReelInserts[k].task = i}

\* a decoded clock frame from another peer, signed by a prover of tries[0]
AdmissibleSender(i) ==
    /\ frameMsg[i].wire = "ok"
    /\ frameMsg[i].typeUrl = "ClockFrame"
    /\ frameMsg[i].from # SelfPeerID
    /\ frameMsg[i].frame.decodes
    /\ frameMsg[i].frame.signer # Nil
    /\ Poseidon(frameMsg[i].frame.signer) \in frameProverTries

\* C1: a verified frame of a prover in tries[0], from another peer, is
\* inserted (isSync = false) exactly once when its number is above the head
\* the handler read, and not at all when it is equal or below; the handler
\* returns success either way.
C1_InsertIffAheadOfHead ==
    \A i \in FrameMsgIds :
        (AdmissibleSender(i) /\ frameMsg[i].frame.valid) =>
            /\ CountCalls(frameCalls[i], "Insert") <= 1
            /\ CountCalls(frameCalls[i], "Insert") = Cardinality(ReelInsertsOf(i))
            /\ framePc[i] = "done" =>
                  /\ frameResult[i] = "ok"
                  /\ CountCalls(frameCalls[i], "Insert") =
                       IF frameMsg[i].frame.frameNumber > frameHead[i] THEN 1 ELSE 0
                  /\ \A k \in ReelInsertsOf(i) :
                        /\ timeReelInserts[k].frame = frameMsg[i].frame
                        /\ timeReelInserts[k].isSync = FALSE

C1_Witness ==
    /\ \E i \in FrameMsgIds :
          /\ AdmissibleSender(i) /\ frameMsg[i].frame.valid
          /\ framePc[i] = "done"
          /\ frameMsg[i].frame.frameNumber > frameHead[i]
          /\ CountCalls(frameCalls[i], "Insert") = 1
    /\ \E j \in FrameMsgIds :
          /\ AdmissibleSender(j) /\ frameMsg[j].frame.valid
          /\ framePc[j] = "done"
          /\ frameMsg[j].frame.frameNumber = frameHead[j]
          /\ CountCalls(frameCalls[j], "Insert") = 0

\* C2: every frame handed to the time reel was, in the invocation that
\* inserted it, signed by a prover of tries[0] and verified by the frame
\* prover; a frame that fails verification ends its handler with an error
\* before the head is read and before any insert.
C2_InsertedOnlyVerifiedTrieFrames ==
    /\ \A k \in DOMAIN timeReelInserts :
          LET ins == timeReelInserts[k]
              calls == frameCalls[ins.task]
          IN  /\ ins.frame = frameMsg[ins.task].frame
              /\ Poseidon(ins.frame.signer) \in frameProverTries
              /\ ins.frame.valid
              /\ \E c, v, n \in DOMAIN calls :
                    /\ c < v /\ v < n
                    /\ calls[c].op = "Contains" /\ calls[c].arg = TRUE
                    /\ calls[v].op = "Verify" /\ calls[v].arg = TRUE
                    /\ calls[n].op = "Insert"
    /\ \A i \in FrameMsgIds :
          (AdmissibleSender(i) /\ ~frameMsg[i].frame.valid) =>
              /\ ~HasCall(frameCalls[i], "Head")
              /\ ~HasCall(frameCalls[i], "Insert")
              /\ ReelInsertsOf(i) = {}
              /\ framePc[i] \in {"none", "send", "data", "frame", "verify", "done"}
              /\ framePc[i] = "done" => frameResult[i] = "error"

C2_Witness ==
    /\ timeReelInserts # <<>>
    /\ \E i \in FrameMsgIds :
          /\ AdmissibleSender(i) /\ ~frameMsg[i].frame.valid
          /\ framePc[i] = "done"
          /\ HasCall(frameCalls[i], "Verify")

\* C3: a frame whose signer address is not in tries[0] makes the handler
\* return success without calling verify, head or insert.
C3_TrieGating ==
    \A i \in FrameMsgIds :
        ( /\ frameMsg[i].wire = "ok" /\ frameMsg[i].typeUrl = "ClockFrame"
          /\ frameMsg[i].frame.decodes
          /\ frameMsg[i].frame.signer # Nil
          /\ Poseidon(frameMsg[i].frame.signer) \notin frameProverTries ) =>
            /\ ~HasCall(frameCalls[i], "Verify")
            /\ ~HasCall(frameCalls[i], "Head")
            /\ ~HasCall(frameCalls[i], "Insert")
            /\ ReelInsertsOf(i) = {}
            /\ framePc[i] \in {"none", "send", "data", "frame", "done"}
            /\ framePc[i] = "done" => frameResult[i] = "ok"

C3_Witness ==
    \E i \in FrameMsgIds :
        /\ frameMsg[i].from # SelfPeerID
        /\ frameMsg[i].frame.decodes
        /\ frameMsg[i].frame.valid
        /\ frameMsg[i].frame.signer # Nil
        /\ Poseidon(frameMsg[i].frame.signer) \notin frameProverTries
        /\ frameMsg[i].frame.frameNumber > timeReelHead
        /\ HasCall(frameCalls[i], "Contains")
        /\ framePc[i] = "done"

\* C4: an envelope sent by the local peer makes the handler return success
\* with no verify and no time reel call, whatever its payload.
C4_SelfLoopbackSilence ==
    \A i \in FrameMsgIds :
        (frameMsg[i].from = SelfPeerID) =>
            /\ ~HasCall(frameCalls[i], "Verify")
            /\ ~HasCall(frameCalls[i], "Head")
            /\ ~HasCall(frameCalls[i], "Insert")
            /\ ReelInsertsOf(i) = {}
            /\ framePc[i] \in {"none", "send", "data", "done"}
            /\ framePc[i] = "done" => frameResult[i] = "ok"

C4_Witness ==
    /\ \E i \in FrameMsgIds :
          /\ frameMsg[i].from = SelfPeerID
          /\ frameMsg[i].frame.decodes
          /\ frameMsg[i].frame.valid
          /\ Poseidon(frameMsg[i].frame.signer) \in frameProverTries
          /\ frameMsg[i].frame.frameNumber > timeReelHead
          /\ framePc[i] = "done"
    /\ \E j \in FrameMsgIds :
          /\ frameMsg[j].from = SelfPeerID
          /\ ~frameMsg[j].frame.decodes
          /\ framePc[j] = "done"

\* ------------------------------------------------- announcements: claims

StoredTimestamp(q) == IF peerMap[q].present THEN peerMap[q].timestamp ELSE 0

AllFinished == \A i \in InfoMsgIds : infoPc[i] \in {"dropped", "done"}

\* handler i is between two records, having finished record infoRec[i]
RecordFinished(i) == infoPc[i] = "loop" /\ infoIdx[i] >= 1

HasPeerCall(i, op, arg) ==
    \E k \in DOMAIN infoCalls[i] :
        infoCalls[i][k].op = op /\ infoCalls[i][k].arg = arg

HasStored(i) ==
    \E k \in DOMAIN infoCalls[i] : infoCalls[i][k].op = "Store"

\* handler i went as far as the lookup for its current record
LookedUp(i) ==
    /\ RecordFinished(i)
    /\ HasPeerCall(i, "SetPeerScore", AnnounceScore)

\* key parses, belongs to the peer, and signed max frame, version, timestamp
Authentic(p) ==
    /\ p.publicKey \in PublicKeys
    /\ PeerIDOfKey(p.publicKey) = p.peerId
    /\ p.signature = Sign(p.publicKey,
          BigEndianUint64(p.maxFrame) \o p.version \o BigEndianUint64(p.timestamp))

BelowMinimumVersion(p) == BytesCompare(p.version, MinimumVersion) < 0

Eligible(q) == q # SelfPeerID /\ q \notin uncooperativePeersMap

\* C5: with announcements handled one after the other, the timestamp
\* stored for a peer that is neither the local one nor uncooperative is the
\* greatest timestamp among the validated announcements it sent.
C5_StoredTimestampIsMaxValidated ==
    (\A i \in InfoMsgIds : infoPc[i] \in {"none", "send", "dropped", "done", "loop"})
        => \A q \in Peers : Eligible(q) => StoredTimestamp(q) = validatedMax[q]

C5_Witness ==
    \E i, j \in InfoMsgIds :
        /\ infoPc[i] = "done"
        /\ LookedUp(j)
        /\ Validated(infoRec[j], infoMsg[j].from)
        /\ Eligible(infoRec[j].peerId)
        /\ infoExisting[j].present
        /\ infoExisting[j].timestamp > infoRec[j].timestamp
        /\ StoredTimestamp(infoRec[j].peerId) = infoExisting[j].timestamp
        /\ ~HasStored(j)

\* C6 as stated: a stored record is replaced only by a record with a
\* strictly greater timestamp.
C6_ReplacedOnlyByStrictlyNewer ==
    [][\A q \in Peers :
         (peerMap[q].present /\ peerMap'[q] # peerMap[q])
             => peerMap'[q].timestamp > peerMap[q].timestamp]_vars

StoreWritesRecord ==
    \A i \in InfoMsgIds :
        (infoPc[i] = "store" /\ infoPc'[i] = "loop") =>
            LET p == infoRec[i]
                w == peerMap'[p.peerId]
            IN  /\ w.present
                /\ w.timestamp = p.timestamp /\ w.maxFrame = p.maxFrame
                /\ w.signature = p.signature /\ w.version = p.version
                /\ w.publicKey = p.publicKey
                /\ w.totalDistance = p.totalDistance
                /\ w.lastSeen = now'
                /\ \A q \in Peers : q # p.peerId => peerMap'[q] = peerMap[q]

\* C6 as amended: the handler replaces the stored record unless the record
\* it found at its lookup has a strictly greater timestamp; a record with
\* the same timestamp as the one found replaces it. With handlers run one
\* at a time a stored record is so replaced only by a record whose
\* timestamp is greater or equal.
C6_ReplacedUnlessOlder ==
    /\ [][StoreWritesRecord]_vars
    /\ [][\A q \in Peers :
            (peerMap[q].present /\ peerMap'[q] # peerMap[q])
                => peerMap'[q].timestamp >= peerMap[q].timestamp]_vars
    /\ [](\A i \in InfoMsgIds :
            LookedUp(i) =>
                (HasStored(i) <=>
                    ~(infoExisting[i].present
                        /\ infoExisting[i].timestamp > infoRec[i].timestamp)))

C6_Witness ==
    \E i \in InfoMsgIds :
        /\ LookedUp(i)
        /\ infoExisting[i].present
        /\ infoExisting[i].timestamp = infoRec[i].timestamp
        /\ infoExisting[i].maxFrame # infoRec[i].maxFrame
        /\ peerMap[infoRec[i].peerId].maxFrame = infoRec[i].maxFrame
        /\ HasStored(i)

\* C7: with announcement handlers running concurrently, the timestamp
\* stored for a peer never decreases and, once every handler has returned,
\* is the greatest timestamp among the validated announcements.
C7_ConcurrentTimestampsConverge ==
    /\ [][\A q \in Peers : StoredTimestamp(q)' >= StoredTimestamp(q)]_vars
    /\ [](AllFinished =>
            \A q \in Peers : Eligible(q) => StoredTimestamp(q) = validatedMax[q])

\* C8: a record whose key does not parse, is not the peer's, or whose
\* signature does not verify over max frame, version and timestamp is
\* neither stored nor scored +10.
C8_AnnouncementAuthenticity ==
    \A i \in InfoMsgIds :
        (infoRec[i] # NoRecord /\ ~Authentic(infoRec[i])) =>
            /\ ~HasPeerCall(i, "SetPeerScore", AnnounceScore)
            /\ ~HasStored(i)
            /\ infoPc[i] = "loop"

C8_Witness ==
    \E i \in InfoMsgIds :
        /\ RecordFinished(i)
        /\ infoRec[i].peerId = infoMsg[i].from
        /\ Eligible(infoRec[i].peerId)
        /\ infoRec[i].publicKey = KeyOfPeer(infoRec[i].peerId)
        /\ infoRec[i].signature.signer = infoRec[i].publicKey
        /\ infoRec[i].version # <<>>
        /\ ~Authentic(infoRec[i])
        /\ peerScore[infoRec[i].peerId] = 0

\* C9: an authentic record of the sender with a version below the minimum
\* is penalised and skipped when its timestamp is after the cutoff; at or
\* before the cutoff it is not penalised, and is stored when the peer is
\* not uncooperative and the record found does not have a greater timestamp.
C9_VersionGating ==
    \A i \in InfoMsgIds :
        LET p == infoRec[i] IN
        ( /\ p # NoRecord /\ p.peerId = infoMsg[i].from /\ p.peerId # SelfPeerID
          /\ Authentic(p) /\ BelowMinimumVersion(p) ) =>
            IF p.timestamp > MinimumVersionCutoff
            THEN /\ infoCalls[i] =
                      <<PeerCall("SetPeerScore", p.peerId, OutdatedPenalty)>>
                 /\ infoPc[i] = "loop"
            ELSE /\ ~HasPeerCall(i, "SetPeerScore", OutdatedPenalty)
                 /\ ( /\ RecordFinished(i)
                      /\ p.peerId \notin uncooperativePeersMap
                      /\ ~(infoExisting[i].present
                             /\ infoExisting[i].timestamp > p.timestamp) )
                        => ( /\ HasStored(i)
                             /\ HasPeerCall(i, "SetPeerScore", AnnounceScore) )

C9_Witness ==
    \E i, j \in InfoMsgIds :
        /\ RecordFinished(i) /\ RecordFinished(j)
        /\ infoRec[i].peerId = infoMsg[i].from
        /\ infoRec[j].peerId = infoMsg[j].from
        /\ Authentic(infoRec[i]) /\ Authentic(infoRec[j])
        /\ BelowMinimumVersion(infoRec[i]) /\ BelowMinimumVersion(infoRec[j])
        /\ infoRec[i].timestamp > MinimumVersionCutoff
        /\ infoRec[j].timestamp <= MinimumVersionCutoff
        /\ HasPeerCall(i, "SetPeerScore", OutdatedPenalty)
        /\ HasStored(j)

\* handler i took a step
Stepped(i) == infoPc'[i] # infoPc[i] \/ infoIdx'[i] # infoIdx[i]

\* C10: a handler invoked with sender S changes the registry entry and the
\* score of no peer but S, and never those of the local peer; records about
\* another peer or about the local peer are skipped at once.
C10_OnlyTheSenderIsTouched ==
    /\ [][\A i \in InfoMsgIds : Stepped(i) =>
            \A q \in Peers :
                (q # infoMsg'[i].from \/ q = SelfPeerID) =>
                    /\ peerMap'[q] = peerMap[q]
                    /\ peerScore'[q] = peerScore[q]]_vars
    /\ [](\A i \in InfoMsgIds :
            ( /\ infoRec[i] # NoRecord
              /\ (infoRec[i].peerId # infoMsg[i].from
                     \/ infoRec[i].peerId = SelfPeerID) ) =>
                /\ infoCalls[i] = <<>>
                /\ infoPc[i] = "loop")

C10_Witness ==
    \E i, j \in InfoMsgIds :
        /\ RecordFinished(i) /\ RecordFinished(j)
        /\ infoRec[i].peerId # infoMsg[i].from
        /\ infoMsg[i].from # SelfPeerID
        /\ Eligible(infoRec[i].peerId)
        /\ Validated(infoRec[i], infoRec[i].peerId)
        /\ ~peerMap[infoRec[i].peerId].present
        /\ peerScore[infoRec[i].peerId] = 0
        /\ infoMsg[j].from = SelfPeerID
        /\ infoRec[j].peerId = SelfPeerID
        /\ Authentic(infoRec[j])

\* ------------------------------------------------------- staging: claims

\* the collision rule of the staging table: request r, arriving second,
\* collides with request t, staged first
SameDedupKey(t, r) ==
    /\ t.variant = r.variant
    /\ \/ /\ r.variant \in {"Transfer", "Split", "Join", "Leave", "Pause", "Resume"}
          /\ t.keys = r.keys
       \/ /\ r.variant \in {"Merge", "Announce"}
          /\ \E x \in DOMAIN t.keys : \E y \in DOMAIN r.keys : t.keys[x] = r.keys[y]
       \/ /\ r.variant = "Mint"
          /\ Len(r.keys) < 2
          /\ \E x \in DOMAIN t.keys : \E y \in DOMAIN r.keys : t.keys[x] = r.keys[y]

Staged == stagedTransactions.Requests

\* handler i leaves its critical section in this step
Appends(i) == txPc[i] = "append" /\ txPc'[i] = "range"

CollidesWithStaged(r) == \E k \in DOMAIN Staged : SameDedupKey(Staged[k], r)

\* C11: on a prover, a request handled while nothing is staged becomes the
\* one staged entry, and a request that collides per the per-variant rule
\* with a staged one leaves the staged list as it was: of two colliding
\* requests handled one after the other only the first is staged.
C11_StagingDedup ==
    [][\A i \in TxMsgIds :
          Appends(i) /\ txGate[i] = "in" =>
             /\ Staged = <<>> => stagedTransactions'.Requests = <<txReq[i]>>
             /\ CollidesWithStaged(txReq[i]) =>
                   stagedTransactions'.Requests = Staged]_vars

C11_Witness ==
    \E i \in TxMsgIds :
       /\ txPc[i] = "range"
       /\ txGate[i] = "in"
       /\ txResult[i] = "nil"
       /\ txFound[i]
       /\ Len(Staged) = 1
       /\ Staged[1] = TokenRequest("Merge", <<"coinA", "coinB">>)
       /\ txReq[i] = TokenRequest("Merge", <<"coinB", "coinC">>)

\* C12: a Split request that has the coin address of no staged Split is
\* appended after the staged requests: Split(coinX) and then Split(coinY)
\* are both staged, in that order.
C12_SplitCollidesOnSameCoinOnly ==
    [][\A i \in TxMsgIds :
          Appends(i) /\ txReq[i].variant = "Split"
                     /\ ~CollidesWithStaged(txReq[i]) =>
             stagedTransactions'.Requests = Append(Staged, txReq[i])]_vars

\* C13: a Mint request is left out exactly when it has fewer than 2 proofs
\* and shares a proof with a staged Mint; otherwise it is appended. So
\* Mint([p]) then Mint([p,q]) are both staged, and Mint([p,q]) then Mint([p])
\* leaves only the first.
C13_MintThreshold ==
    [][\A i \in TxMsgIds :
          Appends(i) /\ txReq[i].variant = "Mint" =>
             LET r == txReq[i]
                 shares == \E k \in DOMAIN Staged :
                              /\ Staged[k].variant = "Mint"
                              /\ \E x \in DOMAIN Staged[k].keys :
                                    \E y \in DOMAIN r.keys :
                                       Staged[k].keys[x] = r.keys[y]
             IN  stagedTransactions'.Requests =
                    IF shares /\ Len(r.keys) < 2 THEN Staged
                    ELSE Append(Staged, r)]_vars

C13_Witness ==
    /\ Staged = <<TokenRequest("Mint", <<"p">>), TokenRequest("Mint", <<"p", "q">>)>>
    /\ \E i \in TxMsgIds :
          /\ txPc[i] = "range"
          /\ txReq[i] = TokenRequest("Mint", <<"p", "q">>)
          /\ ~txFound[i]
          /\ txResult[i] = "nil"

\* C14: a call of handleTokenRequest that finds the local proving address
\* outside the first prover trie returns nil at once and leaves the staged
\* list as it was, not even allocated if it was nil.
C14_StagingGate ==
    [][\A i \in TxMsgIds :
          txPc[i] = "gate" /\ txPc'[i] # "gate"
             /\ provingKeyAddress \notin frameProverTries =>
                /\ stagedTransactions' = stagedTransactions
                /\ stagedTransactionsMx' = stagedTransactionsMx
                /\ txResult'[i] = "nil"
                /\ txPc'[i] = "range"]_vars

C14_Witness ==
    \E i \in TxMsgIds :
       /\ txPc[i] = "range"
       /\ txReq[i] \in TokenRequests
       /\ txGate[i] = "out"
       /\ txResult[i] = "nil"
       /\ ~stagedTransactions.allocated
       /\ Staged = <<>>

\* staged' extends staged at its end
Extends(new, old) ==
    /\ Len(new) >= Len(old)
    /\ \A k \in DOMAIN old : new[k] = old[k]

\* C20: the scan and the append of a call run with the staging lock held by
\* that call alone, no staged request collides with one staged before it,
\* whatever the interleaving, and a step only ever appends to the list.
C20_StagingAtomic ==
    /\ [](\A i \in TxMsgIds :
             txPc[i] \in {"scan", "append"} => stagedTransactionsMx = i)
    /\ [](\A k, l \in DOMAIN Staged :
             k < l => ~SameDedupKey(Staged[k], Staged[l]))
    /\ [][Extends(stagedTransactions'.Requests, Staged)]_vars

C20_Witness ==
    \E i, j \in TxMsgIds :
       /\ i # j
       /\ txPc[i] = "append"
       /\ ~txFound[i]
       /\ stagedTransactionsMx = i
       /\ txPc[j] = "lock"
       /\ txReq[i] = TokenRequest("Transfer", <<"coinX">>)
       /\ txReq[j] = TokenRequest("Transfer", <<"coinX">>)

\* ---------------------------------------------------- publishing: claims

CallArg(calls, op) ==
    (CHOOSE c \in {calls[n] : n \in DOMAIN calls} : c.op = op).arg

\* C15: a finished publishProof has called publishMessage for the
\* self-announcement and then for the frame, whether or not the first
\* failed, and has returned an error exactly when the frame publish failed.
C15_PublishProofErrors ==
    \A k \in PubIds :
       pubPc[k] = "done" =>
          /\ \E a, b \in DOMAIN pubCalls[k] :
                /\ a < b
                /\ pubCalls[k][a].op = "publishInfo"
                /\ pubCalls[k][b].op = "publishFrame"
          /\ (pubResult[k] = "nil") <=>
                (CallArg(pubCalls[k], "publishFrame") = "nil")

\* C16: no task is inside a call of the transport, the frame prover or the
\* time reel while it holds the peer registry lock or the staging lock.
C16_NoLockHeldAcrossCalls ==
    /\ \A k \in PubIds :
          pubPc[k] \in {"GetPeerID", "GetTotalDistance", "list"} =>
             peerMapMx.writer # PubHolder(k)
    /\ \A i \in InfoMsgIds :
          infoPc[i] = "transport" =>
             peerMapMx.writer # i /\ i \notin peerMapMx.readers
    /\ \A i \in TxMsgIds :
          txPc[i] \in {"process", "gate"} => stagedTransactionsMx # i

\* -------------------------------------------------------- queues: claims

\* envelope i was received by the worker and handed to a handler goroutine
FrameDispatched(i) ==
    framePc[i] \in {"data", "frame", "verify", "head", "insert", "done"}

\* C17: every envelope sent on the frame queue or on the info queue is
\* received by the worker while the process lives, although the handlers
\* started for earlier envelopes may never return (no handler step is ever
\* forced to happen, only the worker's receive is).
C17_NoHeadOfLineBlocking ==
    /\ \A i \in FrameMsgIds :
          (framePc[i] = "send") ~> (framePc[i] # "send" \/ panicked)
    /\ \A i \in InfoMsgIds :
          (infoPc[i] = "send") ~> (infoPc[i] # "send" \/ panicked)

C17_Witness ==
    \E j, i \in FrameMsgIds :
       /\ j < i
       /\ frameDequeued = <<j, i>>
       /\ framePc[j] = "verify"
       /\ FrameDispatched(i)
       /\ ~panicked

\* C18: the worker receives the envelopes of a queue in the order in which
\* the transport callback was invoked for them.
C18_DequeuedInCallbackOrder ==
    /\ \A a, b \in DOMAIN frameDequeued :
          a < b => frameDequeued[a] < frameDequeued[b]
    /\ \A a, b \in DOMAIN infoDequeued :
          a < b => infoDequeued[a] < infoDequeued[b]
    /\ \A a, b \in DOMAIN txDequeued :
          a < b => txDequeued[a] < txDequeued[b]

\* C19: for a peer in the uncooperative set no handler makes the multiaddr
\* lookup, sets the score to +10 or stores a registry entry, and no step
\* changes the peer's registry entry.
C19_UncooperativeMasksAdmission ==
    /\ [](\A i \in InfoMsgIds : \A n \in DOMAIN infoCalls[i] :
             infoCalls[i][n].peer \in uncooperativePeersMap =>
                /\ infoCalls[i][n].op = "SetPeerScore"
                /\ infoCalls[i][n].arg # AnnounceScore)
    /\ [](\A q \in uncooperativePeersMap : peerScore[q] # AnnounceScore)
    /\ [][\A q \in uncooperativePeersMap : peerMap'[q] = peerMap[q]]_vars

C19_Witness ==
    \E i \in InfoMsgIds :
       /\ RecordFinished(i)
       /\ infoRec[i].peerId \in uncooperativePeersMap
       /\ ValidateRecord(infoRec[i], infoMsg[i].from) = "pass"
       /\ infoCalls[i] = <<>>
       /\ ~peerMap[infoRec[i].peerId].present

====
